---- MODULE Spec2Model ----
(***************************************************************************)
(* Model of the promise utilities of src/config.js: PromisePool (bounded   *)
(* worker pool), PromisePool.execute, AsyncQueue (serial queue),           *)
(* RetryPolicy (retry with backoff), Timeout.promise (deadline guard),     *)
(* CachePromise (memoization with expiry), AsyncIterator (fromArray,       *)
(* delayed, batch) and Deferred.                                           *)
(*                                                                         *)
(* Promises follow the ECMAScript job model: a reaction registered with    *)
(* then/catch/finally/await runs as a job of the FIFO microtask queue      *)
(* (field mq) after the promise it waits on has settled.  The i-th call of *)
(* add() submits the task named i; the value a task produces is named by   *)
(* the task, and so is the error it fails with.                            *)
(***************************************************************************)
EXTENDS Integers, Sequences, FiniteSets, TLC

\* ------------------------------------------------------------------ bounds
NumTasks == 3
MaxConcurrency == 2
MaxRetries == 2
MaxTime == 2
NumMemo == 2
MaxLen == 3
NumCalls == 3

Tasks == 1..NumTasks

\* How a task behaves when invoked: "ok" returns a promise that fulfils,
\* "fail" returns a promise that rejects, "throw" throws synchronously.
Kinds == {"ok", "fail", "throw"}

Pending == [st |-> "pending", of |-> 0]

VARIABLES pool, aq, rp, tm, cp, it, df, rp2, tq

vars == <<pool, aq, rp, tm, cp, it, df, rp2, tq>>

\* ------------------------------------------------------------ PromisePool

\* constructor(concurrency = 3)
DefaultConcurrency == 3

\* new PromisePool(concurrency)
PromisePool(c) ==
  [ concurrency |-> c,
    running     |-> 0,
    queue       |-> <<>>,
    \* environment and history
    n        |-> 0,                         \* number of add() calls so far
    kind     |-> [t \in Tasks |-> "ok"],    \* behaviour of each submitted task
    pc       |-> [t \in Tasks |-> "new"],   \* new, queued, running, settled, thrown, done
    handle   |-> [t \in Tasks |-> Pending], \* the promise add() returned
    calls    |-> [t \in Tasks |-> 0],       \* resolve/reject invocations per handle
    mq       |-> <<>>,                      \* microtask queue
    startSeq |-> <<>>,                      \* tasks in the order they were invoked
    failSeq  |-> <<>>,                      \* tasks in the order they failed
    exc      |-> 0,                         \* error in flight on the call stack
    escaped  |-> {},                        \* errors that rejected a promise nobody holds
    \* the promise PromisePool.execute returned ("none": execute not called)
    all      |-> [on |-> FALSE, remaining |-> 0, st |-> "none", of |-> 0,
                  vals |-> [t \in Tasks |-> 0],
                  early |-> {},                 \* handles pending when it settled
                  order |-> <<>>] ]             \* handles in the order it saw them fulfilled

\* The resolving functions of the promise add() returned for task t:
\* the first call settles it, later calls are no-ops.  A settled handle
\* that Promise.all has subscribed to schedules Promise.all's reaction.
SettleHandle(P, t, st, of) ==
  LET P1 == [P EXCEPT !.calls[t] = @ + 1]
  IN  IF P.handle[t].st # "pending" THEN P1
      ELSE [P1 EXCEPT !.handle[t] = [st |-> st, of |-> of],
                      !.mq = IF P.all.on THEN Append(@, <<"all", t>>) ELSE @]

_process_OffByOne(P) ==
  P.running <= P.concurrency /\ Len(P.queue) > 0

\* loop condition of _process
_processGuard(P) ==
  P.running < P.concurrency /\ Len(P.queue) > 0

_processPick_Last(P) ==
  [item |-> P.queue[Len(P.queue)], rest |-> SubSeq(P.queue, 1, Len(P.queue) - 1)]

\* this.queue.shift()
_processPick(P) ==
  [item |-> Head(P.queue), rest |-> Tail(P.queue)]

\* PromisePool._process: start queued tasks while a slot is free.  A task
\* that throws when invoked ends the loop with the exception in flight
\* (field exc), after running was incremented and the item was dequeued.
RECURSIVE _process(_)
_process(P) ==
  IF _processGuard(P)
  THEN LET pick == _processPick(P)
           t    == pick.item
           P1   == [P EXCEPT !.running = @ + 1,
                             !.queue = pick.rest,
                             !.startSeq = Append(@, t)]
       IN  IF P.kind[t] = "throw"
           THEN [P1 EXCEPT !.pc[t] = "thrown", !.exc = t,
                           !.failSeq = Append(@, t)]
           ELSE _process([P1 EXCEPT !.pc[t] = "running"])
  ELSE P

\* PromisePool.add: the executor pushes the item and dispatches; an
\* exception leaving the executor rejects the promise being constructed.
add(P, k) ==
  LET t  == P.n + 1
      P1 == [P EXCEPT !.n = t, !.kind[t] = k, !.pc[t] = "queued",
                      !.queue = Append(@, t)]
      P2 == _process(P1)
  IN  IF P2.exc # 0
      THEN [SettleHandle(P2, t, "rejected", P2.exc) EXCEPT !.exc = 0]
      ELSE P2

PoolFinally_NoDispatch(P, t) ==
  [P EXCEPT !.running = @ - 1, !.pc[t] = "done"]

\* the callback given to .finally()
PoolFinally(P, t) ==
  LET P1 == _process([P EXCEPT !.running = @ - 1, !.pc[t] = "done"])
  IN  IF P1.exc # 0
      THEN [P1 EXCEPT !.exc = 0, !.escaped = @ \cup {P1.exc}]
      ELSE P1

PoolIdle == pool.all.st = "none"

\* user code builds the pool with a ceiling of its choice
PNew(c) ==
  /\ PoolIdle /\ pool.n = 0
  /\ pool.concurrency # c
  /\ pool' = PromisePool(c)
  /\ UNCHANGED <<aq, rp, tm, cp, it, df, rp2, tq>>

\* pool.add(task) called by user code
Add(k) ==
  /\ PoolIdle
  /\ pool.n < NumTasks
  /\ pool' = add(pool, k)
  /\ UNCHANGED <<aq, rp, tm, cp, it, df, rp2, tq>>

\* the promise returned by a running task settles
Settle(t) ==
  /\ pool.pc[t] = "running"
  /\ pool' = [pool EXCEPT !.pc[t] = "settled", !.mq = Append(@, <<"then", t>>),
                          !.failSeq = IF pool.kind[t] = "fail" THEN Append(@, t) ELSE @]
  /\ UNCHANGED <<aq, rp, tm, cp, it, df, rp2, tq>>

\* reaction of .then(resolve)
ThenJob ==
  /\ pool.mq # <<>> /\ Head(pool.mq)[1] = "then"
  /\ LET t  == Head(pool.mq)[2]
         P1 == [pool EXCEPT !.mq = Tail(@)]
         P2 == IF P1.kind[t] = "ok" THEN SettleHandle(P1, t, "fulfilled", t) ELSE P1
     IN  pool' = [P2 EXCEPT !.mq = Append(@, <<"catch", t>>)]
  /\ UNCHANGED <<aq, rp, tm, cp, it, df, rp2, tq>>

\* reaction of .catch(reject)
CatchJob ==
  /\ pool.mq # <<>> /\ Head(pool.mq)[1] = "catch"
  /\ LET t  == Head(pool.mq)[2]
         P1 == [pool EXCEPT !.mq = Tail(@)]
         P2 == IF P1.kind[t] = "fail" THEN SettleHandle(P1, t, "rejected", t) ELSE P1
     IN  pool' = [P2 EXCEPT !.mq = Append(@, <<"finally", t>>)]
  /\ UNCHANGED <<aq, rp, tm, cp, it, df, rp2, tq>>

\* reaction of .finally(() => { this.running--; this._process(); })
FinallyJob ==
  /\ pool.mq # <<>> /\ Head(pool.mq)[1] = "finally"
  /\ LET t  == Head(pool.mq)[2]
     IN  pool' = PoolFinally([pool EXCEPT !.mq = Tail(@)], t)
  /\ UNCHANGED <<aq, rp, tm, cp, it, df, rp2, tq>>

\* tasks.map(task => pool.add(task))
RECURSIVE addEach(_, _)
addEach(P, ks) ==
  IF ks = <<>> THEN P ELSE addEach(add(P, Head(ks)), Tail(ks))

PendingHandles(P) == {t \in 1..P.n : P.handle[t].st = "pending"}

\* Promise.all settles the promise it returned
SettleAll(P, st, of) ==
  IF P.all.st # "pending" THEN P
  ELSE [P EXCEPT !.all.st = st, !.all.of = of, !.all.early = PendingHandles(P)]

\* Promise.all(handles): subscribes to every handle in index order; a handle
\* that is already settled schedules its reaction at once, and an empty
\* list fulfils the result immediately.
PromiseAll(P) ==
  LET settled == SelectSeq([i \in 1..P.n |-> i], LAMBDA t : P.handle[t].st # "pending")
      P1 == [P EXCEPT !.all.on = TRUE, !.all.st = "pending", !.all.remaining = P.n,
                      !.mq = @ \o [i \in 1..Len(settled) |-> <<"all", settled[i]>>]]
  IN  IF P.n = 0 THEN SettleAll(P1, "fulfilled", 0) ELSE P1

\* PromisePool.execute(tasks, concurrency) on the pool it has just built
execute(P, ks) == PromiseAll(addEach(P, ks))

AllReaction_FirstWins(P, t) ==
  IF P.handle[t].st = "rejected"
  THEN SettleAll(P, "rejected", P.handle[t].of)
  ELSE SettleAll([P EXCEPT !.all.remaining = @ - 1, !.all.vals[t] = P.handle[t].of,
                           !.all.order = Append(@, t)],
                 "fulfilled", 0)

AllReaction_CompletionOrder(P, t) ==
  IF P.handle[t].st = "rejected"
  THEN SettleAll(P, "rejected", P.handle[t].of)
  ELSE LET P1 == [P EXCEPT !.all.remaining = @ - 1,
                           !.all.vals[Len(P.all.order) + 1] = P.handle[t].of,
                           !.all.order = Append(@, t)]
       IN  IF P1.all.remaining = 0 THEN SettleAll(P1, "fulfilled", 0) ELSE P1

\* reaction of Promise.all to the handle of task t
AllReaction(P, t) ==
  IF P.handle[t].st = "rejected"
  THEN SettleAll(P, "rejected", P.handle[t].of)
  ELSE LET P1 == [P EXCEPT !.all.remaining = @ - 1, !.all.vals[t] = P.handle[t].of,
                           !.all.order = Append(@, t)]
       IN  IF P1.all.remaining = 0 THEN SettleAll(P1, "fulfilled", 0) ELSE P1

SeqsUpTo(S, n) == UNION {[1..m -> S] : m \in 0..n}

\* PromisePool.execute(tasks, concurrency) called by user code
Execute(ks) ==
  /\ PoolIdle /\ pool.n = 0
  /\ pool' = execute(pool, ks)
  /\ UNCHANGED <<aq, rp, tm, cp, it, df, rp2, tq>>

AllJob ==
  /\ pool.mq # <<>> /\ Head(pool.mq)[1] = "all"
  /\ pool' = AllReaction([pool EXCEPT !.mq = Tail(@)], Head(pool.mq)[2])
  /\ UNCHANGED <<aq, rp, tm, cp, it, df, rp2, tq>>

\* ------------------------------------------------------------- AsyncQueue

\* new AsyncQueue()
AsyncQueue ==
  [ tasks      |-> <<>>,
    processing |-> FALSE,
    \* environment and history
    n         |-> 0,                         \* number of add() calls so far
    kind      |-> [t \in Tasks |-> "ok"],
    pc        |-> [t \in Tasks |-> "new"],   \* new, queued, running, settled, done, cleared
    handle    |-> [t \in Tasks |-> Pending],
    calls     |-> [t \in Tasks |-> 0],
    mq        |-> <<>>,                      \* microtask queue
    startSeq  |-> <<>>,                      \* tasks in the order they were invoked
    settleSeq |-> <<>>,                      \* tasks in the order their handles settled
    waiter    |-> "idle",                    \* a waitAll() call: idle, polling, returned
    retVia    |-> "none",                    \* how it returned: at the call, or after a poll
    during    |-> {} ]                       \* tasks added while it was polling

\* the resolving functions of the promise add() returned for task t
SettleQHandle(Q, t, st, of) ==
  LET Q1 == [Q EXCEPT !.calls[t] = @ + 1]
  IN  IF Q.handle[t].st # "pending" THEN Q1
      ELSE [Q1 EXCEPT !.handle[t] = [st |-> st, of |-> of],
                      !.settleSeq = Append(@, t)]

RECURSIVE _processNext(_)

_processNextFinally_KeepFlag(Q) == _processNext(Q)

_processNextFinally_NoRestart(Q) == [Q EXCEPT !.processing = FALSE]

\* the finally block of _processNext
_processNextFinally(Q) == _processNext([Q EXCEPT !.processing = FALSE])

_processNextGuard_IgnoreFlag(Q) == Len(Q.tasks) = 0

\* the early return of _processNext
_processNextGuard(Q) == Q.processing \/ Len(Q.tasks) = 0

_processNextPick_Last(Q) ==
  [item |-> Q.tasks[Len(Q.tasks)], rest |-> SubSeq(Q.tasks, 1, Len(Q.tasks) - 1)]

\* this.tasks.shift()
_processNextPick(Q) ==
  [item |-> Head(Q.tasks), rest |-> Tail(Q.tasks)]

_processNext_FlagNotSet(Q) ==
  IF _processNextGuard(Q) THEN Q
  ELSE LET pick == _processNextPick(Q)
           t    == pick.item
           Q1   == [Q EXCEPT !.tasks = pick.rest,
                             !.startSeq = Append(@, t)]
       IN  IF Q.kind[t] = "throw"
           THEN _processNextFinally(
                  [SettleQHandle(Q1, t, "rejected", t) EXCEPT !.pc[t] = "done"])
           ELSE [Q1 EXCEPT !.pc[t] = "running"]

\* AsyncQueue._processNext up to its await: a task that throws when it is
\* invoked is caught at once, its handle rejected and the finally block run.
_processNext(Q) ==
  IF _processNextGuard(Q) THEN Q
  ELSE LET pick == _processNextPick(Q)
           t    == pick.item
           Q1   == [Q EXCEPT !.processing = TRUE,
                             !.tasks = pick.rest,
                             !.startSeq = Append(@, t)]
       IN  IF Q.kind[t] = "throw"
           THEN _processNextFinally(
                  [SettleQHandle(Q1, t, "rejected", t) EXCEPT !.pc[t] = "done"])
           ELSE [Q1 EXCEPT !.pc[t] = "running"]

\* AsyncQueue._processNext after its await: try/catch settles the handle,
\* then the finally block runs
_processNextResume(Q, t) ==
  _processNextFinally(
    [SettleQHandle(Q, t, IF Q.kind[t] = "ok" THEN "fulfilled" ELSE "rejected", t)
       EXCEPT !.pc[t] = "done"])

\* AsyncQueue.add
addQ(Q, k) ==
  LET t == Q.n + 1
  IN  _processNext([Q EXCEPT !.n = t, !.kind[t] = k, !.pc[t] = "queued",
                             !.tasks = Append(@, t),
                             !.during = IF Q.waiter = "polling" THEN @ \cup {t} ELSE @])

\* AsyncQueue.size
size(Q) == Len(Q.tasks)

clear_ResetsFlag(Q) ==
  [Q EXCEPT !.tasks = <<>>, !.processing = FALSE,
            !.pc = [t \in Tasks |-> IF Q.pc[t] = "queued" THEN "cleared" ELSE Q.pc[t]]]

\* AsyncQueue.clear
clear(Q) ==
  [Q EXCEPT !.tasks = <<>>,
            !.pc = [t \in Tasks |-> IF Q.pc[t] = "queued" THEN "cleared" ELSE Q.pc[t]]]

waitAllCond_OnlyQueue(Q) == Len(Q.tasks) > 0

\* loop condition of waitAll
waitAllCond(Q) == Len(Q.tasks) > 0 \/ Q.processing

\* queue.add(task) called by user code
QAdd(k) ==
  /\ aq.n < NumTasks
  /\ aq' = addQ(aq, k)
  /\ UNCHANGED <<pool, rp, tm, cp, it, df, rp2, tq>>

\* the promise returned by the running task settles
QSettle(t) ==
  /\ aq.pc[t] = "running"
  /\ aq' = [aq EXCEPT !.pc[t] = "settled", !.mq = Append(@, <<"resume", t>>)]
  /\ UNCHANGED <<pool, rp, tm, cp, it, df, rp2, tq>>

\* _processNext continues after its await
QResume ==
  /\ aq.mq # <<>>
  /\ aq' = _processNextResume([aq EXCEPT !.mq = Tail(@)], Head(aq.mq)[2])
  /\ UNCHANGED <<pool, rp, tm, cp, it, df, rp2, tq>>

\* queue.clear() called by user code
QClear ==
  /\ aq' = clear(aq)
  /\ aq' # aq
  /\ UNCHANGED <<pool, rp, tm, cp, it, df, rp2, tq>>

\* queue.waitAll() called by user code: runs up to the first await
QWaitAll ==
  /\ aq.waiter # "polling"
  /\ aq' = [aq EXCEPT !.waiter = IF waitAllCond(aq) THEN "polling" ELSE "returned",
                      !.retVia = IF waitAllCond(aq) THEN "none" ELSE "call",
                      !.during = {}]
  /\ aq' # aq
  /\ UNCHANGED <<pool, rp, tm, cp, it, df, rp2, tq>>

\* the 10 ms timer of waitAll fires (timers run when no microtask is queued)
\* and the loop condition is tested again
QPoll ==
  /\ aq.waiter = "polling"
  /\ aq.mq = <<>>
  /\ ~waitAllCond(aq)
  /\ aq' = [aq EXCEPT !.waiter = "returned", !.retVia = "poll"]
  /\ UNCHANGED <<pool, rp, tm, cp, it, df, rp2, tq>>

\* ------------------------------------------------------------ RetryPolicy

\* constructor defaults of RetryPolicy
DefaultMaxRetries == 3
DefaultDelay == 1000
DefaultBackoff == 2

\* delays and multipliers the policy is constructed with
Delays == {0, 1, 10}
Backoffs == {1, 2, 3}

\* new RetryPolicy(maxRetries, delay, backoff); the other fields are the
\* locals of the execute call in progress and its history.  The value the
\* j-th invocation of fn produces is named j, and so is its error.
RetryPolicy(m, d, b) ==
  [ maxRetries |-> m, delay |-> d, backoff |-> b,
    pc           |-> "idle",   \* idle, awaiting, sleeping, returned, threw
    i            |-> 0,
    currentDelay |-> 0,
    lastError    |-> 0,
    attempts     |-> 0,        \* invocations of fn in this call
    outcomes     |-> <<>>,     \* how each invocation behaved
    sleeps       |-> <<>>,     \* durations passed to _sleep in this call
    result       |-> 0 ]

RetryLoopCond_Exclusive(R) == R.i < R.maxRetries

\* loop condition: i <= this.maxRetries
RetryLoopCond(R) == R.i <= R.maxRetries

RetrySleepCond_Always(R) == R.i <= R.maxRetries

\* if (i < this.maxRetries)
RetrySleepCond(R) == R.i < R.maxRetries

RetryLastError_KeepFirst(R, e) == IF R.lastError # 0 THEN R.lastError ELSE e

\* lastError = error
RetryLastError(R, e) == e

RetryNextDelay_Additive(R) == R.currentDelay + R.backoff

\* currentDelay *= this.backoff
RetryNextDelay(R) == R.currentDelay * R.backoff

RetryReturn_DropsValue(R, v) == [R EXCEPT !.pc = "returned", !.result = 0]

\* return await Promise.resolve(fn())
RetryReturn(R, v) == [R EXCEPT !.pc = "returned", !.result = v]

RECURSIVE RetryLoop(_, _)

\* the catch block: record the error, then sleep or go on to the next
\* iteration
RetryCatch(R, e, k) ==
  LET R1 == [R EXCEPT !.lastError = RetryLastError(R, e)]
  IN  IF RetrySleepCond(R1)
      THEN [R1 EXCEPT !.pc = "sleeping", !.sleeps = Append(@, R1.currentDelay)]
      ELSE RetryLoop([R1 EXCEPT !.i = @ + 1], k)

\* the for loop from its condition up to the next await; k is how fn
\* behaves if it is invoked; after the loop: throw lastError
RetryLoop(R, k) ==
  IF ~RetryLoopCond(R)
  THEN [R EXCEPT !.pc = "threw", !.result = R.lastError]
  ELSE LET R1 == [R EXCEPT !.attempts = @ + 1, !.outcomes = Append(@, k)]
       IN  IF k = "throw" THEN RetryCatch(R1, R1.attempts, k)
           ELSE [R1 EXCEPT !.pc = "awaiting"]

retryExecute_PersistsDelay(R, k) ==
  RetryLoop([R EXCEPT !.i = 0, !.currentDelay = R.delay, !.lastError = 0,
                      !.attempts = 0, !.outcomes = <<>>, !.sleeps = <<>>,
                      !.result = 0, !.delay = R.delay * R.backoff], k)

\* RetryPolicy.execute up to its first await
retryExecute(R, k) ==
  RetryLoop([R EXCEPT !.i = 0, !.currentDelay = R.delay, !.lastError = 0,
                      !.attempts = 0, !.outcomes = <<>>, !.sleeps = <<>>,
                      !.result = 0], k)

RetryIdle == rp.pc \in {"idle", "returned", "threw"}

\* new RetryPolicy(m, d, b) called by user code
RNew(m, d, b) ==
  /\ RetryIdle /\ rp2.pc \in {"idle", "returned", "threw"}
  /\ rp' = RetryPolicy(m, d, b)
  /\ rp2' = RetryPolicy(m, d, b)
  /\ rp' # rp
  /\ UNCHANGED <<pool, aq, tm, cp, it, df, tq>>

\* policy.execute(fn) called by user code
RExecute(k) ==
  /\ RetryIdle
  /\ rp' = retryExecute(rp, k)
  /\ UNCHANGED <<pool, aq, tm, cp, it, df, rp2, tq>>

\* the promise fn returned settles and execute continues after its await
RSettle(k) ==
  /\ rp.pc = "awaiting"
  /\ rp' = IF rp.outcomes[rp.attempts] = "ok"
           THEN RetryReturn(rp, rp.attempts)
           ELSE RetryCatch(rp, rp.attempts, k)
  /\ UNCHANGED <<pool, aq, tm, cp, it, df, rp2, tq>>

\* the timer of _sleep fires and execute continues after its await
RWake(k) ==
  /\ rp.pc = "sleeping"
  /\ rp' = RetryLoop([rp EXCEPT !.currentDelay = RetryNextDelay(rp), !.i = @ + 1], k)
  /\ UNCHANGED <<pool, aq, tm, cp, it, df, rp2, tq>>

\* The locals of a second execute call, made on the same policy while the
\* first is in progress, are held in rp2; the fields it reads and could
\* write are those of the one policy object, held in rp.
WithPolicy(L, P) ==
  [L EXCEPT !.maxRetries = P.maxRetries, !.delay = P.delay, !.backoff = P.backoff]

\* policy.execute(fn) called by user code while an execute call on the
\* same policy is suspended
R2Execute(k) ==
  /\ rp.pc \in {"awaiting", "sleeping"}
  /\ rp2.pc \in {"idle", "returned", "threw"}
  /\ rp2' = retryExecute(WithPolicy(rp2, rp), k)
  /\ rp' = WithPolicy(rp, rp2')
  /\ UNCHANGED <<pool, aq, tm, cp, it, df, tq>>

\* the promise fn returned to the second call settles
R2Settle(k) ==
  /\ rp2.pc = "awaiting"
  /\ rp2' = LET R == WithPolicy(rp2, rp)
            IN  IF R.outcomes[R.attempts] = "ok"
                THEN RetryReturn(R, R.attempts)
                ELSE RetryCatch(R, R.attempts, k)
  /\ rp' = WithPolicy(rp, rp2')
  /\ UNCHANGED <<pool, aq, tm, cp, it, df, tq>>

\* the timer of the second call's _sleep fires
R2Wake(k) ==
  /\ rp2.pc = "sleeping"
  /\ rp2' = LET R == WithPolicy(rp2, rp)
            IN  RetryLoop([R EXCEPT !.currentDelay = RetryNextDelay(R), !.i = @ + 1], k)
  /\ rp' = WithPolicy(rp, rp2')
  /\ UNCHANGED <<pool, aq, tm, cp, it, df, tq>>

NextRetry ==
  \/ \E m \in 0..MaxRetries, d \in Delays, b \in Backoffs : RNew(m, d, b)
  \/ \E k \in Kinds : RExecute(k) \/ RSettle(k) \/ RWake(k)
  \/ \E k \in Kinds : R2Execute(k) \/ R2Settle(k) \/ R2Wake(k)

\* ---------------------------------------------------------------- Timeout

\* How the computation passed to Timeout.promise settles: it is settled
\* already at the call; a microtask pending at the call settles it; a timer
\* due at time c settles it, ordered before or after the timer of the guard
\* among timers due at the same instant; or it never settles.
Vias == {"already", "micro", "timerBefore", "timerAfter", "never"}

TimerVias == {"timerBefore", "timerAfter"}

\* before Timeout.promise is called
TimeoutIdle ==
  [ pc |-> "idle", kind |-> "ok", via |-> "never", c |-> 0, timeoutMs |-> 0,
    comp      |-> "pending",    \* the promise passed in: pending, settled
    timer     |-> "none",       \* the setTimeout of the guard: none, armed, fired
    now       |-> 0,            \* time elapsed since the call
    mq        |-> <<>>,         \* reactions of Promise.race waiting to run
    race      |-> Pending,      \* the promise Timeout.promise returned
    settledAt |-> 0,
    changes   |-> 0,            \* times the returned promise changed state
    calls     |-> 0,            \* invocations of its resolving functions
    order     |-> <<>> ]        \* "comp" and "timer" in the order they settled

RaceOutcome_ErrorAsTimeout(T, src) ==
  IF src = "comp" /\ T.kind = "ok" THEN [st |-> "fulfilled", of |-> "value"]
  ELSE [st |-> "rejected", of |-> "timeout"]

\* what the reaction of Promise.race passes on for the promise src
RaceOutcome(T, src) ==
  IF src = "timer" THEN [st |-> "rejected", of |-> "timeout"]
  ELSE IF T.kind = "ok" THEN [st |-> "fulfilled", of |-> "value"]
  ELSE [st |-> "rejected", of |-> "error"]

RaceSettle_LastWins(T, o) ==
  [T EXCEPT !.calls = @ + 1, !.race = o, !.settledAt = T.now,
            !.changes = IF T.race = o THEN @ ELSE @ + 1]

\* the resolving functions of the promise Promise.race returned: the first
\* call settles it, later calls are no-ops
RaceSettle(T, o) ==
  IF T.race.st # "pending" THEN [T EXCEPT !.calls = @ + 1]
  ELSE [T EXCEPT !.calls = @ + 1, !.race = o, !.settledAt = T.now,
                 !.changes = @ + 1]

TimeoutPromise_ZeroRejectsNow(T, kind, via, c, d) ==
  LET settled == via = "already"
  IN  [T EXCEPT !.pc = "racing", !.kind = kind, !.via = via, !.c = c,
                !.timeoutMs = d,
                !.comp = IF settled THEN "settled" ELSE "pending",
                !.timer = IF d = 0 THEN "fired" ELSE "armed",
                !.mq = (IF settled THEN <<"comp">> ELSE <<>>)
                         \o (IF d = 0 THEN <<"timer">> ELSE <<>>),
                !.order = (IF settled THEN <<"comp">> ELSE <<>>)
                            \o (IF d = 0 THEN <<"timer">> ELSE <<>>)]

\* Timeout.promise(promise, timeoutMs): arms the timer and subscribes
\* Promise.race to both promises; a promise that is already settled
\* schedules its reaction at once
TimeoutPromise(T, kind, via, c, d) ==
  LET settled == via = "already"
  IN  [T EXCEPT !.pc = "racing", !.kind = kind, !.via = via, !.c = c,
                !.timeoutMs = d,
                !.comp = IF settled THEN "settled" ELSE "pending",
                !.timer = "armed",
                !.mq = IF settled THEN <<"comp">> ELSE <<>>,
                !.order = IF settled THEN <<"comp">> ELSE <<>>]

\* the computation settles
CompSettle(T) ==
  [T EXCEPT !.comp = "settled", !.mq = Append(@, "comp"), !.order = Append(@, "comp")]

\* the timer of the computation runs before the timer of the guard
CompBeforeGuard(T) ==
  T.c < T.timeoutMs \/ (T.c = T.timeoutMs /\ T.via = "timerBefore")

\* Timeout.promise(promise, timeoutMs) called by user code
TPromise(kind, via, c, d) ==
  /\ tm.pc = "idle"
  /\ via \notin TimerVias => c = 0
  /\ tm' = TimeoutPromise(tm, kind, via, c, d)
  /\ UNCHANGED <<pool, aq, rp, cp, it, df, rp2, tq>>

\* a microtask settles the computation
TCompMicro ==
  /\ tm.pc = "racing" /\ tm.via = "micro" /\ tm.comp = "pending"
  /\ tm' = CompSettle(tm)
  /\ UNCHANGED <<pool, aq, rp, cp, it, df, rp2, tq>>

\* the timer of the computation fires (timers run when no microtask is
\* queued, in the order they are due)
TCompTimer ==
  /\ tm.pc = "racing" /\ tm.via \in TimerVias /\ tm.comp = "pending"
  /\ tm.mq = <<>>
  /\ tm.timer = "armed" => CompBeforeGuard(tm)
  /\ tm' = CompSettle([tm EXCEPT !.now = tm.c])
  /\ UNCHANGED <<pool, aq, rp, cp, it, df, rp2, tq>>

\* the timer of the guard fires: reject(new Error('Promise timed out'))
TTimerFire ==
  /\ tm.pc = "racing" /\ tm.timer = "armed"
  /\ tm.mq = <<>>
  /\ ~(tm.via = "micro" /\ tm.comp = "pending")
  /\ (tm.via \in TimerVias /\ tm.comp = "pending") => ~CompBeforeGuard(tm)
  /\ tm' = [tm EXCEPT !.timer = "fired", !.now = tm.timeoutMs,
                      !.mq = Append(@, "timer"), !.order = Append(@, "timer")]
  /\ UNCHANGED <<pool, aq, rp, cp, it, df, rp2, tq>>

\* a reaction of Promise.race runs
TRaceJob ==
  /\ tm.mq # <<>>
  /\ tm' = RaceSettle([tm EXCEPT !.mq = Tail(@)], RaceOutcome(tm, Head(tm.mq)))
  /\ UNCHANGED <<pool, aq, rp, cp, it, df, rp2, tq>>

NextTimeout ==
  \/ \E kind \in {"ok", "fail"}, via \in Vias, c \in 0..MaxTime, d \in 0..MaxTime :
        TPromise(kind, via, c, d)
  \/ TCompMicro \/ TCompTimer \/ TTimerFire \/ TRaceJob

\* ----------------------------------------------------------- CachePromise

\* memoize calls are numbered in call order; the value a computation
\* produces is named by its call, and so is the error it fails with
Calls == 1..NumMemo

Keys == {"a", "b"}

\* the ttl argument of memoize: absent or null (given = FALSE), or a
\* number of time units
TtlArgs == {[given |-> FALSE, ms |-> 0]} \cup {[given |-> TRUE, ms |-> m] : m \in {0, 2}}

\* the argument of clear: a key, or "" for a call without a (truthy) key
ClearArgs == Keys \cup {""}

NoEntries == [k \in {} |-> [value |-> 0, expiry |-> 0]]

\* new CachePromise(), with the clock Date.now() reads
CachePromise ==
  [ cache |-> NoEntries,                 \* Map key -> {value, expiry}; expiry 0 is null
    now   |-> 0,
    \* environment and history
    n       |-> 0,                                   \* number of memoize calls so far
    key     |-> [i \in Calls |-> "a"],
    ttl     |-> [i \in Calls |-> [given |-> FALSE, ms |-> 0]],
    kind    |-> [i \in Calls |-> "ok"],
    pc      |-> [i \in Calls |-> "new"],            \* new, awaiting, settled, done
    result  |-> [i \in Calls |-> Pending],           \* the promise memoize returned
    invoked |-> [i \in Calls |-> FALSE],             \* fn was invoked by this call
    evicted |-> [i \in Calls |-> FALSE],             \* this call deleted an expired entry
    during  |-> [i \in Calls |-> {}],                \* computations in flight when the call was made
    pinned  |-> {},                                  \* keys stored without expiry and not cleared since
    stale   |-> {},                                  \* calls in flight when their key was cleared
                                                     \* (recorded by CClearTracked only)
    mq      |-> <<>>,                                \* microtask queue
    doneSeq |-> <<>> ]                               \* calls in the order their computations completed

\* Map.prototype.set
MapSet(m, k, e) == [x \in DOMAIN m \cup {k} |-> IF x = k THEN e ELSE m[x]]

\* Map.prototype.delete
MapDelete(m, k) == [x \in DOMAIN m \ {k} |-> m[x]]

CacheFresh_Inclusive(e, now) == e.expiry = 0 \/ now <= e.expiry

\* !cached.expiry || Date.now() < cached.expiry
CacheFresh(e, now) == e.expiry = 0 \/ now < e.expiry

CacheHit_Never(C, key) == FALSE

\* the condition under which memoize returns the stored value
CacheHit(C, key) == key \in DOMAIN C.cache /\ CacheFresh(C.cache[key], C.now)

CacheExpiry_ZeroIsTtl(ttl, now) == IF ttl.given THEN now + ttl.ms ELSE 0

\* ttl ? Date.now() + ttl : null
CacheExpiry(ttl, now) == IF ttl.given /\ ttl.ms # 0 THEN now + ttl.ms ELSE 0

memoizeReturnCached_Touch(C, i) ==
  [C EXCEPT !.pc[i] = "done",
            !.result[i] = [st |-> "fulfilled", of |-> C.cache[C.key[i]].value],
            !.cache[C.key[i]].expiry = CacheExpiry(C.ttl[i], C.now)]

\* return cached.value
memoizeReturnCached(C, i) ==
  [C EXCEPT !.pc[i] = "done",
            !.result[i] = [st |-> "fulfilled", of |-> C.cache[C.key[i]].value]]

\* CachePromise.memoize up to its await: a hit returns the stored value;
\* otherwise an expired entry is deleted and fn is invoked.  A throw of fn
\* rejects the promise memoize returns.
memoize(C, key, k, ttl) ==
  LET i  == C.n + 1
      C0 == [C EXCEPT !.n = i, !.key[i] = key, !.ttl[i] = ttl, !.kind[i] = k,
                      !.during[i] = {j \in Calls : C.pc[j] \in {"awaiting", "settled"}}]
  IN  IF CacheHit(C0, key)
      THEN memoizeReturnCached(C0, i)
      ELSE LET C1 == [C0 EXCEPT !.cache = IF key \in DOMAIN @ THEN MapDelete(@, key) ELSE @,
                                !.evicted[i] = key \in DOMAIN C.cache,
                                !.invoked[i] = TRUE]
           IN  IF k = "throw"
               THEN [C1 EXCEPT !.pc[i] = "done",
                               !.result[i] = [st |-> "rejected", of |-> i]]
               ELSE [C1 EXCEPT !.pc[i] = "awaiting"]

memoizeStore_Always(C, i) == TRUE

\* the statements after the await run only if the awaited promise fulfilled
memoizeStore(C, i) == C.kind[i] = "ok"

memoizeSet_KeepFirst(C, i) ==
  IF C.key[i] \in DOMAIN C.cache THEN C.cache
  ELSE MapSet(C.cache, C.key[i], [value |-> i, expiry |-> CacheExpiry(C.ttl[i], C.now)])

\* this.cache.set(key, { value, expiry })
memoizeSet(C, i) ==
  MapSet(C.cache, C.key[i], [value |-> i, expiry |-> CacheExpiry(C.ttl[i], C.now)])

\* CachePromise.memoize after its await
memoizeResume(C, i) ==
  LET C1 == [C EXCEPT !.pc[i] = "done",
                      !.result[i] = [st |-> IF C.kind[i] = "ok" THEN "fulfilled" ELSE "rejected",
                                     of |-> i]]
  IN  IF memoizeStore(C, i)
      THEN [C1 EXCEPT !.cache = memoizeSet(C, i),
                      !.pinned = IF CacheExpiry(C.ttl[i], C.now) = 0
                                 THEN @ \cup {C.key[i]} ELSE @]
      ELSE C1

\* CachePromise.clear
cacheClear(C, key) ==
  [C EXCEPT !.cache = IF key # "" THEN MapDelete(@, key) ELSE NoEntries,
            !.pinned = IF key # "" THEN @ \ {key} ELSE {}]

\* CachePromise.size
cacheSize(C) == Cardinality(DOMAIN C.cache)

\* cache.memoize(key, fn, ttl) called by user code.  User code and the
\* clock run between event-loop tasks, when the microtask queue is empty.
CMemoize(key, k, ttl) ==
  /\ cp.mq = <<>>
  /\ cp.n < NumMemo
  /\ cp' = memoize(cp, key, k, ttl)
  /\ UNCHANGED <<pool, aq, rp, tm, it, df, rp2, tq>>

\* the promise fn returned settles: the await's continuation is queued
CSettle(i) ==
  /\ cp.pc[i] = "awaiting"
  /\ cp' = [cp EXCEPT !.pc[i] = "settled", !.mq = Append(@, i),
                      !.doneSeq = Append(@, i)]
  /\ UNCHANGED <<pool, aq, rp, tm, it, df, rp2, tq>>

\* the continuation of the await runs
CResume ==
  /\ cp.mq # <<>>
  /\ cp' = memoizeResume([cp EXCEPT !.mq = Tail(@)], Head(cp.mq))
  /\ UNCHANGED <<pool, aq, rp, tm, it, df, rp2, tq>>

\* cache.clear(key) or cache.clear() called by user code
CClear(key) ==
  /\ cp.mq = <<>>
  /\ cp.n > 0
  /\ cp' = cacheClear(cp, key)
  /\ UNCHANGED <<pool, aq, rp, tm, it, df, rp2, tq>>

\* the same call of clear, recording the computations it overtakes
CClearTracked(key) ==
  /\ cp.mq = <<>>
  /\ cp.n > 0
  /\ cp' = [cacheClear(cp, key) EXCEPT
              !.stale = @ \cup {i \in Calls : /\ cp.pc[i] \in {"awaiting", "settled"}
                                              /\ (key = "" \/ cp.key[i] = key)}]
  /\ UNCHANGED <<pool, aq, rp, tm, it, df, rp2, tq>>

\* time passes
CTick ==
  /\ cp.mq = <<>>
  /\ cp.now < MaxTime
  /\ cp' = [cp EXCEPT !.now = @ + 1]
  /\ UNCHANGED <<pool, aq, rp, tm, it, df, rp2, tq>>

NextCache ==
  \/ \E key \in Keys, k \in Kinds, ttl \in TtlArgs : CMemoize(key, k, ttl)
  \/ \E i \in Calls : CSettle(i)
  \/ CResume
  \/ \E key \in ClearArgs : CClear(key)
  \/ CTick

\* ---------------------------------------------------------- AsyncIterator

Elems == {1, 2}

Gens == {"fromArray", "delayed", "batch"}

BatchSizes == {0, 1, 2, 3}

\* no generator object yet
IterIdle ==
  [ gen   |-> "none",
    arr   |-> <<>>,        \* the source array
    param |-> 0,           \* delayMs of delayed, batchSize of batch
    idx   |-> 0,           \* elements of the source consumed so far
    batch |-> <<>>,        \* the local variable batch
    pc    |-> "idle",      \* idle, start, yielded, yieldedLast, sleeping, done
    \* history
    out      |-> <<>>,     \* elements yielded by fromArray / delayed, in order
    groups   |-> <<>>,     \* groups yielded by batch, in order
    sleeps   |-> 0,        \* completed waits of Timeout.delay(delayMs)
    sleptAt  |-> <<>> ]    \* value of sleeps at each yield

\* calling an async generator function: the body has not started
IterCreate(g, arr, p) ==
  [IterIdle EXCEPT !.gen = g, !.arr = arr, !.param = p, !.pc = "start"]

\* for (const item of arr) { yield item; ... }: the next turn of the loop
IterLoop(I) ==
  IF I.idx < Len(I.arr)
  THEN [I EXCEPT !.idx = @ + 1, !.pc = "yielded",
                 !.out = Append(@, I.arr[I.idx + 1]),
                 !.sleptAt = Append(@, I.sleeps)]
  ELSE [I EXCEPT !.pc = "done"]

\* AsyncIterator.fromArray resumed by next()
fromArrayNext(I) == IterLoop(I)

delayedNext_WaitFirst(I) == [I EXCEPT !.pc = "sleeping"]

\* AsyncIterator.delayed resumed by next(): the first call enters the
\* loop, a later one leaves the yield and awaits Timeout.delay(delayMs)
delayedNext(I) ==
  IF I.pc = "start" THEN IterLoop(I) ELSE [I EXCEPT !.pc = "sleeping"]

\* the timer of Timeout.delay fires and the loop goes on
delayedWake(I) == IterLoop([I EXCEPT !.sleeps = @ + 1])

batchFull_AtLeast(I) == Len(I.batch) >= I.param

\* batch.length === batchSize
batchFull(I) == Len(I.batch) = I.param

batchRest_Dropped(I) == FALSE

\* if (batch.length > 0) after the loop
batchRest(I) == Len(I.batch) > 0

\* the for await loop of AsyncIterator.batch over fromArray(arr), up to
\* its next yield or its end
RECURSIVE batchLoop(_)
batchLoop(I) ==
  IF I.idx < Len(I.arr)
  THEN LET I1 == [I EXCEPT !.idx = @ + 1, !.batch = Append(@, I.arr[I.idx + 1])]
       IN  IF batchFull(I1)
           THEN [I1 EXCEPT !.pc = "yielded", !.groups = Append(@, I1.batch)]
           ELSE batchLoop(I1)
  ELSE IF batchRest(I)
       THEN [I EXCEPT !.pc = "yieldedLast", !.groups = Append(@, I.batch)]
       ELSE [I EXCEPT !.pc = "done"]

\* AsyncIterator.batch resumed by next(): after the yield in the loop the
\* batch is replaced by a new empty array; after the last yield it returns
batchNext(I) ==
  CASE I.pc = "start"       -> batchLoop(I)
    [] I.pc = "yielded"     -> batchLoop([I EXCEPT !.batch = <<>>])
    [] I.pc = "yieldedLast" -> [I EXCEPT !.pc = "done"]

\* user code calls a generator function
INew(g, arr, p) ==
  /\ it.pc \in {"idle", "done"}
  /\ it' = IterCreate(g, arr, p)
  /\ UNCHANGED <<pool, aq, rp, tm, cp, df, rp2, tq>>

\* the consumer asks for the next element
INext ==
  /\ it.pc \in {"start", "yielded", "yieldedLast"}
  /\ it' = CASE it.gen = "fromArray" -> fromArrayNext(it)
             [] it.gen = "delayed"   -> delayedNext(it)
             [] it.gen = "batch"     -> batchNext(it)
  /\ UNCHANGED <<pool, aq, rp, tm, cp, df, rp2, tq>>

\* the pacing timer fires
IWake ==
  /\ it.pc = "sleeping"
  /\ it' = delayedWake(it)
  /\ UNCHANGED <<pool, aq, rp, tm, cp, df, rp2, tq>>

NextIter ==
  \/ \E arr \in SeqsUpTo(Elems, MaxLen) :
        \/ INew("fromArray", arr, 0)
        \/ \E d \in Delays : INew("delayed", arr, d)
        \/ \E b \in BatchSizes : INew("batch", arr, b)
  \/ INext
  \/ IWake

\* ---------------------------------------------------------------- Deferred

Values == {1, 2}

\* what resolve or reject is called with: a plain value, or (resolve only)
\* a pending promise that later settles with outcome st
PlainArgs == {[promise |-> FALSE, st |-> "fulfilled", of |-> v] : v \in Values}

PromiseArgs == {[promise |-> TRUE, st |-> s, of |-> v] :
                  s \in {"fulfilled", "rejected"}, v \in Values}

\* new Deferred()
Deferred ==
  [ promise  |-> Pending,     \* state of this.promise
    resolved |-> FALSE,       \* the resolving functions have been used
    follow   |-> [on |-> FALSE, st |-> "fulfilled", of |-> 0],
                              \* the promise this.promise was resolved with and follows
    \* history
    calls    |-> <<>>,        \* the resolve / reject calls made, in order
    threw    |-> FALSE ]      \* a call raised an error

DeferredSettle_LastWins(D, fn, arg) ==
  IF fn = "reject" THEN [D EXCEPT !.resolved = TRUE, !.follow.on = FALSE,
                                  !.promise = [st |-> "rejected", of |-> arg.of]]
  ELSE IF arg.promise THEN [D EXCEPT !.resolved = TRUE, !.promise = Pending,
                                     !.follow = [on |-> TRUE, st |-> arg.st, of |-> arg.of]]
  ELSE [D EXCEPT !.resolved = TRUE, !.follow.on = FALSE,
                 !.promise = [st |-> "fulfilled", of |-> arg.of]]

\* this.resolve / this.reject: the resolving functions of this.promise.
\* The first call decides; a call on a promise already resolved returns
\* without effect.
DeferredSettle(D, fn, arg) ==
  IF D.resolved THEN D
  ELSE IF fn = "reject" THEN [D EXCEPT !.resolved = TRUE,
                                       !.promise = [st |-> "rejected", of |-> arg.of]]
  ELSE IF arg.promise THEN [D EXCEPT !.resolved = TRUE,
                                     !.follow = [on |-> TRUE, st |-> arg.st, of |-> arg.of]]
  ELSE [D EXCEPT !.resolved = TRUE,
                 !.promise = [st |-> "fulfilled", of |-> arg.of]]

\* deferred.resolve(arg) called by user code
DResolve(arg) ==
  /\ Len(df.calls) < NumCalls
  /\ df' = [DeferredSettle(df, "resolve", arg) EXCEPT
              !.calls = Append(@, [fn |-> "resolve", arg |-> arg])]
  /\ UNCHANGED <<pool, aq, rp, tm, cp, it, rp2, tq>>

\* deferred.reject(arg) called by user code
DReject(arg) ==
  /\ Len(df.calls) < NumCalls
  /\ df' = [DeferredSettle(df, "reject", arg) EXCEPT
              !.calls = Append(@, [fn |-> "reject", arg |-> arg])]
  /\ UNCHANGED <<pool, aq, rp, tm, cp, it, rp2, tq>>

\* the promise given to resolve settles and this.promise adopts its outcome
DFollow ==
  /\ df.follow.on
  /\ df' = [df EXCEPT !.follow.on = FALSE,
                      !.promise = [st |-> df.follow.st, of |-> df.follow.of]]
  /\ UNCHANGED <<pool, aq, rp, tm, cp, it, rp2, tq>>

NextDeferred ==
  \/ \E arg \in PlainArgs \cup PromiseArgs : DResolve(arg)
  \/ \E arg \in PlainArgs : DReject(arg)
  \/ DFollow

\* -------------------------------------------------------------- TaskQueue

\* constructor(concurrency = 3)
DefaultTaskConcurrency == 3

\* priorities user code passes to enqueue: the default 0 and a higher one
Priorities == {0, 1}

\* what a rejected or thrown task carries: an Error object, or null/undefined
Reasons == {"error", "null"}

\* new TaskQueue(c)
TaskQueue(c) ==
  [ queue       |-> <<>>,
    running     |-> 0,
    concurrency |-> c,
    completed   |-> <<>>,
    failed      |-> <<>>,
    \* environment and history
    n         |-> 0,                          \* number of enqueue() calls so far
    kind      |-> [t \in Tasks |-> "ok"],     \* behaviour of each task
    reason    |-> [t \in Tasks |-> "error"],  \* what a failing task fails with
    priority  |-> [t \in Tasks |-> 0],        \* item.priority
    status    |-> [t \in Tasks |-> "none"],   \* item.status
    mq        |-> <<>>,                       \* continuations of process() ready to run
    over      |-> [t \in Tasks |-> {}],       \* the items left waiting when t was started
    unhandled |-> {},                         \* items whose process() call rejected
    cleared   |-> FALSE ]                     \* clear() has been called

\* the elements of a sequence
Items(s) == {s[i] : i \in 1..Len(s)}

RECURSIVE insertByPriority_BeforeEquals(_, _, _)
insertByPriority_BeforeEquals(pr, s, x) ==
  IF s = <<>> THEN <<x>>
  ELSE IF pr[Head(s)] > pr[x]
       THEN <<Head(s)>> \o insertByPriority_BeforeEquals(pr, Tail(s), x)
       ELSE <<x>> \o s

\* one step of the stable sort by (a, b) => b.priority - a.priority: x goes
\* behind every element whose priority is not lower than its own
RECURSIVE insertByPriority(_, _, _)
insertByPriority(pr, s, x) ==
  IF s = <<>> THEN <<x>>
  ELSE IF pr[Head(s)] >= pr[x]
       THEN <<Head(s)>> \o insertByPriority(pr, Tail(s), x)
       ELSE <<x>> \o s

\* this.queue.sort((a, b) => b.priority - a.priority): descending priority,
\* elements that compare equal keep their order
RECURSIVE sortByPriority(_, _)
sortByPriority(pr, s) ==
  IF s = <<>> THEN <<>>
  ELSE insertByPriority(pr, sortByPriority(pr, SubSeq(s, 1, Len(s) - 1)), s[Len(s)])

\* the early return of process()
processGuard(T) ==
  ~(T.running >= T.concurrency \/ Len(T.queue) = 0)

RECURSIVE process(_)

\* the statements of process() behind the try/catch
processTail(T) ==
  process([T EXCEPT !.running = @ - 1])

\* the try block behind the await
processThen(T, t) ==
  processTail([T EXCEPT !.status[t] = "completed", !.completed = Append(@, t)])

\* the catch block: reading error.message of null or undefined throws, which
\* rejects the promise of this process() call and skips the rest of it
processCatch(T, t) ==
  LET T1 == [T EXCEPT !.status[t] = "failed"]
  IN  IF T.reason[t] = "null"
      THEN [T1 EXCEPT !.unhandled = @ \cup {t}]
      ELSE processTail([T1 EXCEPT !.failed = Append(@, t)])

\* TaskQueue.process up to its await: starts at most one item; a task that
\* throws when invoked is caught at once and the call goes on to its end
process(T) ==
  IF ~processGuard(T) THEN T
  ELSE LET t  == Head(T.queue)
           T1 == [T EXCEPT !.running = @ + 1,
                           !.queue = Tail(@),
                           !.status[t] = "running",
                           !.over[t] = Items(Tail(T.queue))]
       IN  IF T.kind[t] = "throw" THEN processCatch(T1, t) ELSE T1

\* TaskQueue.enqueue(task, priority)
enqueue(T, k, r, p) ==
  LET t  == T.n + 1
      T1 == [T EXCEPT !.n = t, !.kind[t] = k, !.reason[t] = r, !.priority[t] = p,
                      !.status[t] = "pending"]
  IN  process([T1 EXCEPT !.queue = sortByPriority(T1.priority, Append(@, t))])

\* TaskQueue.getStats
getStats(T) ==
  [ pending   |-> Len(T.queue),
    running   |-> T.running,
    completed |-> Len(T.completed),
    failed    |-> Len(T.failed) ]

\* TaskQueue.clear
taskClear(T) ==
  [T EXCEPT !.queue = <<>>, !.cleared = TRUE]

\* user code builds the queue with a ceiling of its choice
TNew(c) ==
  /\ tq.n = 0 /\ ~tq.cleared
  /\ tq.concurrency # c
  /\ tq' = TaskQueue(c)
  /\ UNCHANGED <<pool, aq, rp, tm, cp, it, df, rp2>>

\* queue.enqueue(task, priority) called by user code
TEnqueue(k, r, p) ==
  /\ tq.n < NumTasks
  /\ k = "ok" => r = "error"
  /\ tq' = enqueue(tq, k, r, p)
  /\ UNCHANGED <<pool, aq, rp, tm, cp, it, df, rp2>>

\* the promise a running task returned settles
TSettle(t) ==
  /\ tq.status[t] = "running" /\ t \notin Items(tq.mq)
  /\ tq' = [tq EXCEPT !.mq = Append(@, t)]
  /\ UNCHANGED <<pool, aq, rp, tm, cp, it, df, rp2>>

\* process() resumes behind its await
TResume ==
  /\ tq.mq # <<>>
  /\ LET t  == Head(tq.mq)
         T1 == [tq EXCEPT !.mq = Tail(@)]
     IN  tq' = IF tq.kind[t] = "ok" THEN processThen(T1, t) ELSE processCatch(T1, t)
  /\ UNCHANGED <<pool, aq, rp, tm, cp, it, df, rp2>>

\* queue.clear() called by user code
TClear ==
  /\ tq.queue # <<>>
  /\ tq' = taskClear(tq)
  /\ UNCHANGED <<pool, aq, rp, tm, cp, it, df, rp2>>

NextTaskQueue ==
  \/ \E c \in 1..MaxConcurrency : TNew(c)
  \/ \E k \in Kinds, r \in Reasons, p \in Priorities : TEnqueue(k, r, p)
  \/ \E t \in Tasks : TSettle(t)
  \/ TResume
  \/ TClear

Init ==
  /\ pool = PromisePool(DefaultConcurrency)
  /\ aq = AsyncQueue
  /\ rp = RetryPolicy(DefaultMaxRetries, DefaultDelay, DefaultBackoff)
  /\ tm = TimeoutIdle
  /\ cp = CachePromise
  /\ it = IterIdle
  /\ df = Deferred
  /\ rp2 = RetryPolicy(DefaultMaxRetries, DefaultDelay, DefaultBackoff)
  /\ tq = TaskQueue(DefaultTaskConcurrency)

SpecCache == Init /\ [][NextCache]_vars

NextCacheClear ==
  \/ \E key \in Keys, k \in Kinds, ttl \in TtlArgs : CMemoize(key, k, ttl)
  \/ \E i \in Calls : CSettle(i)
  \/ CResume
  \/ \E key \in ClearArgs : CClearTracked(key)
  \/ CTick

\* the cache with the history of clear against computations in flight
SpecCacheClear == Init /\ [][NextCacheClear]_vars

SpecIter == Init /\ [][NextIter]_vars

\* the consumer keeps asking for the next element and timers fire
FairSpecIter == SpecIter /\ WF_vars(INext) /\ WF_vars(IWake)

SpecDeferred == Init /\ [][NextDeferred]_vars

SpecRetry == Init /\ [][NextRetry]_vars

SpecTimeout == Init /\ [][NextTimeout]_vars

NextQueue == (\E k \in Kinds : QAdd(k)) \/ (\E t \in Tasks : QSettle(t))
               \/ QResume \/ QClear \/ QWaitAll \/ QPoll

SpecQueue == Init /\ [][NextQueue]_vars

NextPool == (\E c \in 1..MaxConcurrency : PNew(c))
              \/ (\E k \in Kinds : Add(k)) \/ (\E t \in Tasks : Settle(t))
              \/ ThenJob \/ CatchJob \/ FinallyJob
              \/ (\E ks \in SeqsUpTo(Kinds, NumTasks) : Execute(ks)) \/ AllJob

SpecPool == Init /\ [][NextPool]_vars

SpecTaskQueue == Init /\ [][NextTaskQueue]_vars

\* Fairness: a started task eventually finishes (the premise of the liveness
\* claims) and the event loop runs every queued microtask.  Calls made by
\* user code (add, execute, clear, waitAll) are not forced to happen.
FairSpecPool ==
  /\ SpecPool
  /\ \A t \in Tasks : WF_vars(Settle(t))
  /\ WF_vars(ThenJob) /\ WF_vars(CatchJob) /\ WF_vars(FinallyJob) /\ WF_vars(AllJob)

FairSpecQueue ==
  /\ SpecQueue
  /\ \A t \in Tasks : WF_vars(QSettle(t))
  /\ WF_vars(QResume) /\ WF_vars(QPoll)

\* ================================================================ claims

\* tasks whose promise is pending: invoked and not yet finished
Executing(S) == {t \in Tasks : S.pc[t] = "running"}

\* tasks invoked whose outcome the component has not finished handling
Holding(S) == {t \in Tasks : S.pc[t] \in {"running", "settled"}}

\* C1: the pool's running count is never above the ceiling and never
\* negative, and the tasks started and not yet finished never outnumber
\* the ceiling.
C1_Ceiling ==
  /\ pool.running >= 0
  /\ pool.running <= pool.concurrency
  /\ Cardinality(Executing(pool)) <= pool.concurrency

C1_Witness ==
  /\ pool.running = pool.concurrency
  /\ Len(pool.queue) > 0
  /\ \E t \in Tasks : pool.pc[t] = "done"

\* C2: in AsyncQueue at most one task executes at a time, and a task is not
\* started before every task submitted earlier (and not removed by clear)
\* has finished.
C2_MutualExclusion ==
  /\ Cardinality(Holding(aq)) <= 1
  /\ \A i, j \in Tasks :
       (i < j /\ aq.pc[j] \in {"running", "settled", "done"})
         => aq.pc[i] \in {"settled", "done", "cleared"}

C2_Witness ==
  \E t \in Tasks : t > 1 /\ aq.pc[t] = "running" /\ aq.pc[t - 1] = "done"
                     /\ aq.kind[t - 1] # "throw"

HandleOwnOutcome(S) ==
  \A t \in Tasks :
    /\ S.calls[t] <= 1
    /\ S.handle[t].st # "pending" => S.handle[t].of = t
    /\ S.handle[t].st = "fulfilled" => S.kind[t] = "ok"
    /\ S.handle[t].st = "rejected" => S.kind[t] # "ok"
    /\ (S.pc[t] \in {"done", "thrown"}) => S.handle[t].st # "pending"

C4_HandleOwnOutcome ==
  /\ HandleOwnOutcome(pool) /\ pool.escaped = {}
  /\ HandleOwnOutcome(aq)

\* C5 (as claimed): every task passed to PromisePool.add is eventually
\* started and its handle eventually settles.
C5_PoolLiveness ==
  \A t \in Tasks :
    (pool.pc[t] # "new") ~> (pool.pc[t] # "queued" /\ pool.handle[t].st # "pending")

\* C6 (as claimed): every task passed to AsyncQueue.add is eventually
\* invoked and its handle eventually settles, whatever public operations
\* are called.
C6_NoRescind ==
  \A t \in Tasks :
    (aq.pc[t] # "new") ~> (aq.pc[t] = "done" /\ aq.handle[t].st # "pending")

\* C6 (amended): every task passed to AsyncQueue.add that clear() does not
\* remove from the waiting queue is eventually invoked and its handle
\* eventually settles; a task clear() removed is never invoked and its
\* handle stays pending.
C6_Amended ==
  /\ \A t \in Tasks :
       (aq.pc[t] # "new") ~>
          ((aq.pc[t] = "done" /\ aq.handle[t].st # "pending") \/ aq.pc[t] = "cleared")
  /\ [](\A t \in Tasks :
         aq.pc[t] = "cleared"
           => /\ aq.handle[t].st = "pending"
              /\ \A i \in 1..Len(aq.startSeq) : aq.startSeq[i] # t)

C6_Witness ==
  \E t, u \in Tasks : t < u /\ aq.pc[t] = "cleared" /\ aq.pc[u] = "done"
                        /\ aq.handle[u].st # "pending"

\* C7: PromisePool starts tasks in the order they were submitted: the
\* sequence of started tasks is always a prefix of the submission order,
\* whatever order tasks finish in.
C7_FifoStart ==
  pool.startSeq = [i \in 1..Len(pool.startSeq) |-> i]

C7_Witness ==
  \E t \in Tasks : t > 2 /\ pool.pc[t] = "running" /\ pool.pc[t - 1] = "done"
                     /\ pool.pc[t - 2] = "running"

NotCleared(Q) == SelectSeq([i \in 1..Q.n |-> i], LAMBDA t : Q.pc[t] # "cleared")

\* C8: AsyncQueue starts tasks in submission order (skipping only those
\* removed by clear) and settles their handles in exactly the order it
\* started them, whether they succeed or fail.
C8_QueueOrder ==
  /\ aq.startSeq = SubSeq(NotCleared(aq), 1, Len(aq.startSeq))
  /\ aq.settleSeq = SubSeq(aq.startSeq, 1, Len(aq.settleSeq))

C8_Witness ==
  /\ Len(aq.settleSeq) >= 2
  /\ \E t, u \in Tasks : aq.handle[t].st = "fulfilled" /\ aq.handle[u].st = "rejected"

\* C9: when the running task of AsyncQueue fails, by rejection or by
\* throwing, its own handle and no other is rejected, and processing is
\* true exactly while a started task is unfinished or awaiting its
\* continuation; a waiting task is never left with the flag clear.
C9_ContinuesAfterFailure ==
  /\ aq.processing <=> Holding(aq) # {}
  /\ Len(aq.tasks) > 0 => aq.processing
  /\ \A t \in Tasks :
       /\ (aq.pc[t] = "done" /\ aq.kind[t] # "ok")
            => aq.handle[t] = [st |-> "rejected", of |-> t]
       /\ aq.handle[t].st = "rejected" => (aq.kind[t] # "ok" /\ aq.pc[t] = "done")

C9_Witness ==
  \E t, u, v \in Tasks :
    /\ t < v /\ u < v
    /\ aq.kind[t] = "fail" /\ aq.pc[t] = "done"
    /\ aq.kind[u] = "throw" /\ aq.pc[u] = "done"
    /\ aq.pc[v] = "running"

\* C10 (as claimed): the promise execute returned does not settle while
\* the handle of a submitted task is still pending.
C10_WaitsForAll ==
  pool.all.st \in {"fulfilled", "rejected"} => pool.all.early = {}

\* C10 (amended): the promise execute returned is not fulfilled before
\* every handle is fulfilled, and is not rejected before some handle is
\* rejected, whose error it carries; a rejection does not wait for the
\* remaining handles.
C10_Amended ==
  /\ pool.all.st = "fulfilled"
       => (pool.all.early = {} /\ \A t \in 1..pool.n : pool.handle[t].st = "fulfilled")
  /\ pool.all.st = "rejected"
       => \E t \in 1..pool.n : pool.handle[t] = [st |-> "rejected", of |-> pool.all.of]

C10_Witness ==
  /\ pool.all.st = "fulfilled"
  /\ pool.n >= 2

\* C11 (as claimed): when a task given to execute fails, the promise
\* execute returned is rejected with the error of the task that failed
\* first, and no task is skipped: once nothing is in flight every task
\* has been started and has settled its own handle.
C11_FailureSemantics ==
  pool.all.st # "none" =>
    /\ pool.all.st = "rejected"
         => (pool.failSeq # <<>> /\ pool.all.of = pool.failSeq[1])
    /\ (Holding(pool) = {} /\ pool.mq = <<>>)
         => /\ \A t \in 1..pool.n :
                 pool.pc[t] # "queued" /\ pool.handle[t].st # "pending"
                   /\ pool.handle[t].of = t
            /\ pool.failSeq # <<>> => pool.all.st = "rejected"

\* tasks submitted to the queue that are waiting, executing, or finished
\* with their continuation still to run
WorkRemains(Q) == \E t \in Tasks : Q.pc[t] \in {"queued", "running", "settled"}

\* C12: at the step in which waitAll returns, the waiting queue is empty,
\* processing is false and no task is executing.
C12_WaitAllSafety ==
  [][(aq.waiter # "returned" /\ aq'.waiter = "returned")
       => /\ Len(aq'.tasks) = 0 /\ ~aq'.processing
          /\ Len(aq.tasks) = 0 /\ ~aq.processing
          /\ ~WorkRemains(aq')]_vars

C12_Witness ==
  /\ aq.waiter = "returned" /\ aq.retVia = "poll"
  /\ \E t \in Tasks : aq.pc[t] = "done"

\* C13: while work remains the queue is never seen empty with the flag
\* clear, so a waitAll in flight does not return, also for tasks added
\* after it was called; and a waitAll in flight eventually returns once
\* the tasks have finished.
C13_WaitAllConcurrent ==
  /\ [](WorkRemains(aq) => waitAllCond(aq))
  /\ [][(aq.waiter = "polling" /\ WorkRemains(aq')) => aq'.waiter = "polling"]_vars
  /\ (aq.waiter = "polling") ~> (aq.waiter = "returned")

C13_Witness ==
  /\ aq.waiter = "returned" /\ aq.retVia = "poll"
  /\ \E t, u \in aq.during : t # u /\ aq.pc[t] = "done" /\ aq.pc[u] = "done"

\* every invocation of fn made so far in this execute call failed
AllFailed(R) == \A j \in 1..Len(R.outcomes) : R.outcomes[j] # "ok"

RetryEnded(R) == R.pc \in {"returned", "threw"}

\* C14: fn is never invoked more than maxRetries + 1 times in one execute
\* call, and when every invocation fails execute ends by failing after
\* exactly maxRetries + 1 invocations.
C14_AttemptBudget ==
  /\ rp.attempts <= rp.maxRetries + 1
  /\ rp.attempts = Len(rp.outcomes)
  /\ rp.pc = "threw" => (AllFailed(rp) /\ rp.attempts = rp.maxRetries + 1)
  /\ (RetryEnded(rp) /\ AllFailed(rp)) => rp.pc = "threw"

C14_Witness ==
  /\ rp.pc = "threw" /\ rp.maxRetries >= 2 /\ rp.attempts = rp.maxRetries + 1

\* C15: when every attempt failed, execute fails with the error of the
\* last attempt.
C15_LastError ==
  rp.pc = "threw" => (rp.result = rp.attempts /\ rp.result = rp.maxRetries + 1)

C15_Witness ==
  /\ rp.pc = "threw" /\ rp.attempts >= 2 /\ rp.result = rp.attempts

\* C16: execute returns at the first successful invocation of fn, with its
\* value, after exactly k + 1 invocations when the first k failed; fn is
\* not invoked after it succeeded.
C16_FirstSuccess ==
  /\ \A j \in 1..Len(rp.outcomes) :
       rp.outcomes[j] = "ok" => (j = rp.attempts /\ rp.pc \in {"awaiting", "returned"})
  /\ rp.pc = "returned"
       => /\ rp.outcomes[rp.attempts] = "ok"
          /\ rp.result = rp.attempts
          /\ rp.attempts <= rp.maxRetries + 1

C16_Witness ==
  /\ rp.pc = "returned" /\ rp.attempts >= 2 /\ rp.result = rp.attempts
  /\ rp.attempts = rp.maxRetries + 1

RECURSIVE Pow(_, _)
Pow(b, e) == IF e = 0 THEN 1 ELSE b * Pow(b, e - 1)

\* C17: the j-th wait of an execute call lasts delay * backoff^(j-1); a
\* wait follows a failed attempt only when another attempt follows, so
\* there are never more than maxRetries waits, none after the final failed
\* attempt, and none at all when maxRetries is 0.
C17_Backoff ==
  /\ rp.sleeps = [j \in 1..Len(rp.sleeps) |-> rp.delay * Pow(rp.backoff, j - 1)]
  /\ Len(rp.sleeps) <= rp.maxRetries
  /\ rp.pc = "sleeping" => (Len(rp.sleeps) = rp.attempts /\ rp.outcomes[rp.attempts] # "ok")
  /\ rp.pc \in {"awaiting", "returned", "threw"} => Len(rp.sleeps) = rp.attempts - 1
  /\ rp.maxRetries = 0 => rp.sleeps = <<>>

C17_Witness ==
  /\ rp.pc = "threw" /\ Len(rp.sleeps) >= 2
  /\ rp.delay > 0 /\ rp.backoff >= 2

TimerFirst(T) == T.order # <<>> /\ T.order[1] = "timer"

CompFirst(T) == T.order # <<>> /\ T.order[1] = "comp"

TimeoutFailure == [st |-> "rejected", of |-> "timeout"]

\* C18: when the timer fires before the computation settles, the promise
\* Timeout.promise returned is rejected with the timeout error at the
\* deadline, changes state exactly once, and the later outcome of the
\* computation does not alter it.
C18_TimeoutCase ==
  TimerFirst(tm) =>
    /\ tm.mq = <<>> => tm.race.st # "pending"
    /\ tm.race.st # "pending"
         => (tm.race = TimeoutFailure /\ tm.settledAt = tm.timeoutMs /\ tm.changes = 1)

C18_Witness ==
  /\ TimerFirst(tm) /\ tm.order = <<"timer", "comp">> /\ tm.mq = <<>>
  /\ tm.calls = 2 /\ tm.race = TimeoutFailure

\* C19: when the computation settles before the timer fires, the promise
\* Timeout.promise returned settles with the outcome of the computation,
\* its value or its error, and the timer firing later does not alter it.
C19_CompletionCase ==
  CompFirst(tm) =>
    /\ tm.mq = <<>> => tm.race.st # "pending"
    /\ tm.race.st # "pending"
         => /\ tm.kind = "ok" => tm.race = [st |-> "fulfilled", of |-> "value"]
            /\ tm.kind = "fail" => tm.race = [st |-> "rejected", of |-> "error"]
            /\ tm.changes = 1

C19_Witness ==
  /\ tm.order = <<"comp", "timer">> /\ tm.mq = <<>> /\ tm.calls = 2
  /\ tm.kind = "fail" /\ tm.race = [st |-> "rejected", of |-> "error"]

\* completion and deadline fall on the same instant, the computation not
\* being complete when the guard is called
SameInstant(T) ==
  \/ T.via \in TimerVias /\ T.c = T.timeoutMs
  \/ T.via = "micro" /\ T.timeoutMs = 0

\* C20 (as claimed): on a tie the timer wins, and a deadline of zero gives
\* the timeout failure for every computation not complete at the call.
C20_TimerWinsTie ==
  (tm.race.st # "pending"
     /\ (SameInstant(tm) \/ (tm.timeoutMs = 0 /\ tm.via # "already")))
    => tm.race = TimeoutFailure

\* C20 (amended): on a tie the result is the outcome of whichever promise
\* settles first in the order of the event loop: the computation wins when
\* a microtask or a timer queued ahead of the guard's timer settles it,
\* also with a deadline of zero; the timer wins when the computation's
\* timer is queued behind it.
C20_Amended ==
  tm.race.st # "pending" =>
    /\ tm.race = RaceOutcome(tm, tm.order[1])
    /\ SameInstant(tm) =>
         /\ tm.via \in {"micro", "timerBefore"} => tm.order[1] = "comp"
         /\ tm.via = "timerAfter" => tm.race = TimeoutFailure

C20_Witness ==
  /\ tm.via = "micro" /\ tm.timeoutMs = 0 /\ tm.order = <<"comp", "timer">>
  /\ tm.mq = <<>> /\ tm.kind = "ok" /\ tm.race = [st |-> "fulfilled", of |-> "value"]

\* the step is a memoize call for key
MemoizeStep(key) == cp'.n = cp.n + 1 /\ cp'.key[cp'.n] = key

\* the step is the continuation of call i after its await
ResumeStep(i) == cp.pc[i] = "settled" /\ cp'.pc[i] = "done"

\* the step is a call of clear
ClearStep == cp'.n = cp.n /\ cp'.pc = cp.pc /\ cp'.now = cp.now /\ cp'.cache # cp.cache

\* the entry of key is in the map and its expiry instant has been reached
Expired(C, key) ==
  key \in DOMAIN C.cache /\ C.cache[key].expiry # 0 /\ C.now >= C.cache[key].expiry

\* C21: a memoize call that finds an entry for its key which has no expiry,
\* or whose expiry instant lies after the current time, returns the stored
\* value, does not invoke its task and leaves the whole map, the entry's
\* value and expiry included, as it was.
C21_Hit ==
  [][\A key \in Keys :
       (/\ MemoizeStep(key)
        /\ key \in DOMAIN cp.cache
        /\ (cp.cache[key].expiry = 0 \/ cp.now < cp.cache[key].expiry))
       => /\ cp'.result[cp'.n] = [st |-> "fulfilled", of |-> cp.cache[key].value]
          /\ ~cp'.invoked[cp'.n]
          /\ cp'.cache = cp.cache]_vars

\* a call with a ttl of its own was answered from an entry that expires,
\* at a time after the entry was stored
C21_Witness ==
  \E i \in 1..cp.n :
    /\ ~cp.invoked[i] /\ cp.result[i].st = "fulfilled" /\ cp.result[i].of # i
    /\ cp.ttl[i].given /\ cp.ttl[i].ms > 0
    /\ cp.key[i] \in DOMAIN cp.cache
    /\ cp.cache[cp.key[i]].expiry > cp.now /\ cp.now > 0

\* C22: a memoize call made when the expiry instant of its key's entry has
\* been reached deletes the entry and invokes its task; a computation that
\* succeeds stores its value with expiry (time of storing + its ttl); the
\* passage of time changes nothing in the map, and a key leaves the map
\* only in a memoize call for that key or in a clear, so an expired entry
\* is counted by size() until then.
C22_Expiry ==
  [][/\ \A key \in Keys :
          (MemoizeStep(key) /\ Expired(cp, key))
          => /\ key \notin DOMAIN cp'.cache
             /\ cp'.invoked[cp'.n]
     /\ \A i \in Calls :
          (ResumeStep(i) /\ cp.kind[i] = "ok" /\ cp.ttl[i].given /\ cp.ttl[i].ms # 0)
          => cp'.cache[cp.key[i]] = [value |-> i, expiry |-> cp.now + cp.ttl[i].ms]
     /\ cp'.now # cp.now => (cp'.cache = cp.cache /\ cacheSize(cp') = cacheSize(cp))
     /\ \A key \in DOMAIN cp.cache :
          key \notin DOMAIN cp'.cache => (MemoizeStep(key) \/ ClearStep)]_vars

\* an entry outlived its expiry in the map, was deleted by the next lookup
\* of its key, and the recomputed value is stored with a new expiry
C22_Witness ==
  \E i \in 1..cp.n :
    /\ cp.evicted[i] /\ cp.pc[i] = "done" /\ cp.kind[i] = "ok"
    /\ cp.ttl[i].ms > 0
    /\ cp.key[i] \in DOMAIN cp.cache
    /\ cp.cache[cp.key[i]] = [value |-> i, expiry |-> cp.now + cp.ttl[i].ms]
    /\ cacheSize(cp) = 1

\* C23 as stated: once an entry has been stored for a key with ttl absent,
\* null or 0, a memoize call for that key made at any later time before a
\* clear finds a usable entry and so returns without invoking its task.
C23_NoTtlForever == \A key \in cp.pinned : CacheHit(cp, key)

\* C23 amended: a computation that succeeds with ttl absent, null or 0
\* stores an entry without expiry; a memoize call that finds an entry
\* without expiry returns its value without invoking the task, at any time;
\* such an entry is changed only by a clear or by the completion of another
\* computation for the same key, which overwrites it.
C23_Amended ==
  [][/\ \A i \in Calls :
          (ResumeStep(i) /\ cp.kind[i] = "ok" /\ ~(cp.ttl[i].given /\ cp.ttl[i].ms # 0))
          => cp'.cache[cp.key[i]] = [value |-> i, expiry |-> 0]
     /\ \A key \in DOMAIN cp.cache :
          cp.cache[key].expiry = 0
          => /\ MemoizeStep(key)
                => /\ cp'.result[cp'.n] = [st |-> "fulfilled", of |-> cp.cache[key].value]
                   /\ ~cp'.invoked[cp'.n]
             /\ (key \notin DOMAIN cp'.cache \/ cp'.cache[key] # cp.cache[key])
                => \/ ClearStep
                   \/ \E i \in Calls : ResumeStep(i) /\ cp.key[i] = key /\ cp.kind[i] = "ok"]_vars

\* an entry stored with ttl 0 at a time after 0 answered a call made later
C23_Witness ==
  \E i, j \in 1..cp.n :
    /\ cp.invoked[i] /\ cp.ttl[i].given /\ cp.ttl[i].ms = 0
    /\ cp.key[j] = cp.key[i] /\ ~cp.invoked[j]
    /\ cp.result[j] = [st |-> "fulfilled", of |-> i]
    /\ cp.key[i] \in cp.pinned
    /\ cp.now = MaxTime

\* C24: a memoize call whose task fails rejects with the task's error and
\* the step in which it fails creates or changes no entry; a memoize call
\* that finds no entry for its key invokes its task; every entry in the
\* map holds the value of a successful computation for its key.
C24_NoFailureCached ==
  /\ [][/\ \A i \in Calls :
             (cp.result[i].st = "pending" /\ cp'.result[i].st = "rejected")
             => /\ cp'.result[i].of = i
                /\ cp'.kind[i] # "ok"
                /\ cp'.key[i] \notin DOMAIN cp'.cache \/ ResumeStep(i)
                /\ \A key \in DOMAIN cp'.cache :
                     key \in DOMAIN cp.cache /\ cp'.cache[key] = cp.cache[key]
        /\ \A key \in Keys :
             (MemoizeStep(key) /\ key \notin DOMAIN cp.cache) => cp'.invoked[cp'.n]]_vars
  /\ [](\A key \in DOMAIN cp.cache :
          /\ cp.kind[cp.cache[key].value] = "ok" /\ cp.invoked[cp.cache[key].value]
          /\ cp.key[cp.cache[key].value] = key)
  /\ [](\A i \in 1..cp.n :
          (cp.pc[i] = "done" /\ cp.invoked[i] /\ cp.kind[i] # "ok")
          => cp.result[i] = [st |-> "rejected", of |-> i])

\* a task failed after its await, nothing is stored for its key, and the
\* following call for the key invoked its task
C24_Witness ==
  /\ cp.n = 2 /\ cp.key[1] = cp.key[2]
  /\ cp.kind[1] = "fail" /\ cp.pc[1] = "done" /\ cp.result[1].st = "rejected"
  /\ cp.during[2] = {} /\ cp.invoked[2]
  /\ cp.key[1] \notin DOMAIN cp.cache

\* calls for one key of which the later was made while the computation of
\* the earlier was in flight, the later one finding no usable entry
Overlapping(C, i, j) ==
  i \in 1..C.n /\ j \in 1..C.n /\ C.key[i] = C.key[j] /\ i \in C.during[j] /\ C.invoked[j]

\* the calls for key whose computation succeeded and whose continuation
\* has run, in the order the computations completed
CompletedOk(C, key) ==
  SelectSeq(C.doneSeq, LAMBDA i : C.key[i] = key /\ C.kind[i] = "ok" /\ C.pc[i] = "done")

\* C25: a memoize call that finds no usable entry invokes its task even
\* while computations for the same key are in flight; of calls that
\* overlap this way each returns the value of its own computation, and
\* once they have completed the entry in the map is the one written by
\* the computation that completed last.
C25_NoSingleFlight ==
  /\ [][\A key \in Keys :
          (MemoizeStep(key) /\ ~CacheHit(cp, key)
             /\ \E i \in Calls : cp.key[i] = key /\ cp.pc[i] \in {"awaiting", "settled"})
          => cp'.invoked[cp'.n]]_vars
  /\ [](\A i, j \in Calls :
          Overlapping(cp, i, j)
          => /\ cp.invoked[i] /\ cp.invoked[j]
             /\ \A h \in {i, j} :
                  (cp.pc[h] = "done" /\ cp.kind[h] = "ok")
                  => cp.result[h] = [st |-> "fulfilled", of |-> h]
             /\ (cp.key[i] \in DOMAIN cp.cache /\ CompletedOk(cp, cp.key[i]) # <<>>)
                => LET done == CompletedOk(cp, cp.key[i])
                   IN  cp.cache[cp.key[i]].value = done[Len(done)])

\* two calls overlapped, both computations succeeded, the one called
\* first completed last and its entry is the one left in the map
C25_Witness ==
  /\ Overlapping(cp, 1, 2)
  /\ cp.kind[1] = "ok" /\ cp.kind[2] = "ok"
  /\ cp.pc[1] = "done" /\ cp.pc[2] = "done"
  /\ cp.doneSeq = <<2, 1>>
  /\ cp.result[1].of = 1 /\ cp.result[2].of = 2
  /\ cp.key[1] \in DOMAIN cp.cache /\ cp.cache[cp.key[1]].value = 1

\* the concatenation of a sequence of groups
RECURSIVE Flatten(_)
Flatten(gs) == IF gs = <<>> THEN <<>> ELSE Head(gs) \o Flatten(Tail(gs))

IsPrefix(s, t) == Len(s) <= Len(t) /\ s = SubSeq(t, 1, Len(s))

\* C26: for batch size n >= 1 the groups batch has emitted are never
\* empty and never longer than n, every group but the last has exactly n
\* elements, their concatenation is the part of the source consumed so far
\* when a group is handed out and the whole source once batch has
\* returned, and an empty source emits no group.
C26_Batch ==
  (it.gen = "batch" /\ it.param >= 1)
  => /\ \A g \in 1..Len(it.groups) :
          /\ Len(it.groups[g]) >= 1 /\ Len(it.groups[g]) <= it.param
          /\ g < Len(it.groups) => Len(it.groups[g]) = it.param
     /\ IsPrefix(Flatten(it.groups), it.arr)
     /\ it.pc \in {"yielded", "yieldedLast"} => Len(Flatten(it.groups)) = it.idx
     /\ it.pc = "done" => Flatten(it.groups) = it.arr
     /\ it.arr = <<>> => it.groups = <<>>

\* a source of three elements batched by two: a full group and a final
\* group of one
C26_Witness ==
  /\ it.gen = "batch" /\ it.param = 2 /\ it.pc = "done"
  /\ Len(it.arr) = 3 /\ it.arr[1] # it.arr[2]
  /\ it.groups = <<SubSeq(it.arr, 1, 2), SubSeq(it.arr, 3, 3)>>

\* C27: fromArray and delayed yield the elements of the source in source
\* order, each once, and return after the last one; fromArray never waits;
\* delayed yields its first element without a wait before it and waits
\* exactly one pacing interval between one element and the next; a consumer
\* that keeps asking reaches the end of the sequence.
C27_Sequences ==
  /\ [](it.gen \in {"fromArray", "delayed"}
          => /\ IsPrefix(it.out, it.arr)
             /\ Len(it.out) = it.idx
             /\ it.pc = "done" => it.out = it.arr
             /\ it.gen = "fromArray" => it.sleeps = 0
             /\ it.gen = "delayed" => \A k \in 1..Len(it.out) : it.sleptAt[k] = k - 1)
  /\ (it.pc = "start") ~> (it.pc = "done")

\* delayed has yielded a source of at least two elements and returned
C27_Witness ==
  /\ it.gen = "delayed" /\ it.param > 0 /\ it.pc = "done"
  /\ Len(it.arr) >= 2 /\ it.out = it.arr /\ it.arr[1] # it.arr[2]
  /\ it.sleptAt[1] = 0 /\ it.sleptAt[2] = 1

\* the outcome the first resolve or reject call gives the promise
FirstOutcome(D) ==
  LET c == D.calls[1]
  IN  IF c.fn = "reject" THEN [st |-> "rejected", of |-> c.arg.of]
      ELSE [st |-> c.arg.st, of |-> c.arg.of]

\* C28: after any sequence of resolve and reject calls the promise of a
\* Deferred has the outcome given by the first call (or is still pending
\* while it follows the promise the first call resolved it with), and a
\* call after the first changes nothing and raises no error.
C28_SettlesOnce ==
  /\ [](Len(df.calls) >= 1
          => /\ \/ df.promise = FirstOutcome(df)
                \/ /\ df.promise = Pending /\ df.follow.on
                   /\ df.calls[1].fn = "resolve" /\ df.calls[1].arg.promise
                   /\ [st |-> df.follow.st, of |-> df.follow.of] = FirstOutcome(df)
             /\ ~df.threw)
  /\ [][(Len(df.calls) >= 1 /\ Len(df'.calls) = Len(df.calls) + 1)
          => /\ df'.promise = df.promise
             /\ df'.follow = df.follow
             /\ df'.resolved = df.resolved
             /\ df'.threw = df.threw]_vars

\* resolve with a promise that rejects, then resolve with a plain value,
\* then reject with another error: the promise has the first call's outcome
C28_Witness ==
  /\ Len(df.calls) = 3
  /\ df.calls[1].fn = "resolve" /\ df.calls[1].arg.promise /\ df.calls[1].arg.st = "rejected"
  /\ df.calls[2].fn = "resolve" /\ ~df.calls[2].arg.promise
  /\ df.calls[3].fn = "reject" /\ df.calls[3].arg.of # df.calls[1].arg.of
  /\ df.promise = [st |-> "rejected", of |-> df.calls[1].arg.of]

\* tasks submitted so far that wait in the queue
Waiting(P) == {P.queue[i] : i \in 1..Len(P.queue)}

\* tasks that have been invoked
Started(P) == {P.startSeq[i] : i \in 1..Len(P.startSeq)}

\* C29 (as claimed): running is decremented before the handle of a finished
\* task is settled, so in every state in which the handle of a task that
\* returned a promise is settled - in particular when a reaction to the
\* handle is about to run - running no longer counts the task.
C29_DecrementFirst ==
  /\ \A t \in Tasks :
       (pool.handle[t].st # "pending" /\ pool.kind[t] # "throw")
       => t \notin Holding(pool)
  /\ (pool.mq # <<>> /\ Head(pool.mq)[1] = "all" /\ pool.kind[Head(pool.mq)[2]] # "throw")
       => Head(pool.mq)[2] \notin Holding(pool)

\* C30: every submitted task is either waiting in the queue or has been
\* invoked, never both and never neither, so an item leaves the queue in
\* the step that starts it; and in every state between two handlers a
\* non-empty queue implies that running equals the ceiling.
C30_WorkConservation ==
  /\ Waiting(pool) \cap Started(pool) = {}
  /\ Waiting(pool) \cup Started(pool) = 1..pool.n
  /\ Len(pool.queue) = Cardinality(Waiting(pool))
  /\ pool.queue # <<>> => pool.running = pool.concurrency

\* a task has finished and its slot was given to the head of the queue
\* while another task still waits
C30_Witness ==
  /\ pool.queue # <<>>
  /\ \E t \in Tasks : pool.pc[t] = "done"
  /\ Len(pool.startSeq) > pool.concurrency
  /\ pool.running = pool.concurrency
  /\ Cardinality(Executing(pool)) = pool.concurrency

\* the fields of the policy object
PolicyFields(R) == <<R.maxRetries, R.delay, R.backoff>>

\* the step starts an execute call whose locals are L
CallStarts(L, L1) ==
  L.pc \in {"idle", "returned", "threw"} /\ L1.pc # "idle" /\ L1 # L

\* C31: no step of an execute call changes maxRetries, delay or backoff of
\* the policy; an execute call made after earlier calls, or while another
\* call on the same policy is suspended, starts with its own count of
\* attempts and with the policy's delay, and has the whole budget of
\* maxRetries + 1 attempts and the waits delay * backoff^(j-1).
C31_PerCallState ==
  /\ [][/\ rp'.pc # "idle" => PolicyFields(rp') = PolicyFields(rp)
        /\ CallStarts(rp, rp')
             => /\ rp'.attempts = 1 /\ rp'.currentDelay = rp.delay
                /\ rp'.sleeps \in {<<>>, <<rp.delay>>}
        /\ CallStarts(rp2, rp2')
             => /\ rp2'.attempts = 1 /\ rp2'.currentDelay = rp.delay
                /\ rp2'.sleeps \in {<<>>, <<rp.delay>>}]_vars
  /\ [](/\ rp2.sleeps = [j \in 1..Len(rp2.sleeps) |-> rp.delay * Pow(rp.backoff, j - 1)]
        /\ rp2.attempts <= rp.maxRetries + 1
        /\ rp2.pc = "threw" => rp2.attempts = rp.maxRetries + 1
        /\ rp2.pc = "returned" => rp2.result = rp2.attempts)

\* a call made while another had used up two attempts and raised its
\* delay has failed after its own full budget, with its own waits
C31_Witness ==
  /\ rp.pc \in {"sleeping", "awaiting"} /\ rp.attempts >= 2
  /\ rp.currentDelay > rp.delay
  /\ rp2.pc = "threw" /\ rp2.attempts = rp.maxRetries + 1
  /\ Len(rp2.sleeps) >= 2 /\ rp2.sleeps[1] = rp.delay

\* C32 (as claimed): a computation that was in flight when its key was
\* cleared stores nothing when it completes, so no entry in the map holds
\* the value of such a computation.
C32_ClearWins ==
  \A key \in DOMAIN cp.cache : cp.cache[key].value \notin cp.stale

\* the step is a call of clear() that removes at least one waiting task
QClearStep == \E t \in Tasks : aq.pc[t] = "queued" /\ aq'.pc[t] = "cleared"

\* C33: a call of clear() empties the waiting queue, so that size() is 0
\* after it, and changes nothing else: the executing task, the processing
\* flag, the handles, the tasks invoked so far and a waitAll in flight are
\* as before; a removed task is never invoked and its handle stays pending
\* for ever; a waitAll that is polling when tasks have been removed returns
\* once the executing task has finished.
C33_ClearFrame ==
  /\ [][QClearStep
          => /\ aq'.tasks = <<>> /\ size(aq') = 0
             /\ aq'.processing = aq.processing
             /\ aq'.handle = aq.handle /\ aq'.calls = aq.calls
             /\ aq'.startSeq = aq.startSeq /\ aq'.settleSeq = aq.settleSeq
             /\ aq'.mq = aq.mq /\ aq'.waiter = aq.waiter
             /\ \A t \in Tasks : aq.pc[t] # "queued" => aq'.pc[t] = aq.pc[t]]_vars
  /\ [][\A t \in Tasks : aq.pc[t] = "cleared" => aq'.pc[t] = "cleared"]_vars
  /\ [](\A t \in Tasks :
          aq.pc[t] = "cleared"
          => /\ aq.handle[t] = Pending /\ aq.calls[t] = 0
             /\ \A j \in 1..Len(aq.startSeq) : aq.startSeq[j] # t)
  /\ (aq.waiter = "polling" /\ \E t \in Tasks : aq.pc[t] = "cleared")
       ~> (aq.waiter = "returned")

\* a task added while waitAll was polling was removed by clear() behind an
\* executing task; that task finished and waitAll returned
C33_Witness ==
  \E t, u \in Tasks :
    /\ u < t /\ aq.pc[u] = "done" /\ aq.handle[u].st # "pending"
    /\ aq.pc[t] = "cleared" /\ t \in aq.during /\ aq.handle[t] = Pending
    /\ aq.waiter = "returned" /\ aq.retVia = "poll"
    /\ aq.tasks = <<>> /\ ~aq.processing

\* the sequence the promise PromisePool.execute returned is fulfilled with
ExecuteResult(P) == [i \in 1..P.n |-> P.all.vals[i]]

AllSucceed(P) == P.all.on /\ \A t \in 1..P.n : P.kind[t] = "ok"

\* C34: when every task given to execute succeeds, the promise execute
\* returned is never rejected, is fulfilled at once for an empty task list,
\* is eventually fulfilled otherwise, and is fulfilled with the value of
\* task i at position i for every i, whatever order the tasks finished in
\* and whatever the concurrency of the pool.
C34_ResultOrder ==
  /\ [](AllSucceed(pool) =>
          /\ pool.all.st # "rejected"
          /\ pool.n = 0 => pool.all.st = "fulfilled"
          /\ pool.all.st = "fulfilled"
               => /\ ExecuteResult(pool) = [i \in 1..pool.n |-> i]
                  /\ Len(pool.all.order) = pool.n)
  /\ AllSucceed(pool) ~> (pool.all.st = "fulfilled")

C34_Witness ==
  /\ AllSucceed(pool) /\ pool.all.st = "fulfilled"
  /\ pool.n = NumTasks /\ pool.concurrency > 1
  /\ pool.all.order[1] = pool.n
  /\ ExecuteResult(pool) = [i \in 1..pool.n |-> i]

\* the four places getStats counts an item in
InPending(T, t)   == t \in Items(T.queue)
InRunning(T, t)   == T.status[t] = "running"
InCompleted(T, t) == t \in Items(T.completed)
InFailed(T, t)    == t \in Items(T.failed)

PlacesOf(T, t) ==
  {x \in {"pending", "running", "completed", "failed"} :
     \/ x = "pending" /\ InPending(T, t)
     \/ x = "running" /\ InRunning(T, t)
     \/ x = "completed" /\ InCompleted(T, t)
     \/ x = "failed" /\ InFailed(T, t)}

\* C35 (as claimed): as long as clear() has not been called, running stays
\* within 0..concurrency, every enqueued item is in exactly one of pending,
\* running, completed and failed, the four counts of getStats add up to the
\* number of items enqueued, a task that failed and is no longer running is
\* recorded in failed, and items wait only while as many items as the
\* ceiling allows are running.
C35_Accounting ==
  ~tq.cleared =>
    /\ tq.running >= 0 /\ tq.running <= tq.concurrency
    /\ \A t \in 1..tq.n : Cardinality(PlacesOf(tq, t)) = 1
    /\ LET s == getStats(tq)
       IN  s.pending + s.running + s.completed + s.failed = tq.n
    /\ \A t \in 1..tq.n :
         (tq.kind[t] # "ok" /\ ~InPending(tq, t) /\ ~InRunning(tq, t)) => InFailed(tq, t)
    /\ tq.queue # <<>>
         => Cardinality({t \in 1..tq.n : InRunning(tq, t)}) = tq.concurrency

\* t is started ahead of w
Ahead(T, t, w) ==
  \/ T.priority[t] > T.priority[w]
  \/ T.priority[t] = T.priority[w] /\ t < w

\* C36: an item that is started has a higher priority than every item left
\* waiting, or the same priority and an earlier enqueue; an item that is
\* running stays out of the waiting queue and stops running only when its
\* own task has settled and process() resumes for it.
C36_StartOrder ==
  /\ [](\A t \in Tasks : \A w \in tq.over[t] : Ahead(tq, t, w))
  /\ [][\A t \in Tasks :
          tq.status[t] = "running"
            => /\ ~InPending(tq', t)
               /\ tq'.status[t] \in {"running", "completed", "failed"}
               /\ tq'.status[t] # "running" => (tq.mq # <<>> /\ Head(tq.mq) = t)]_vars

C36_Witness ==
  \E u, w, t \in Tasks :
    /\ u < w /\ w < t
    /\ tq.priority[u] < tq.priority[t] /\ tq.priority[w] < tq.priority[t]
    /\ InCompleted(tq, u)
    /\ InRunning(tq, t) /\ w \in tq.over[t]
    /\ InPending(tq, w)

====
